---- MODULE Spec2Model ----
(***************************************************************************)
(* Model of recipes/ceres-solver/all/conanfile.py: the Conan recipe class  *)
(* CeressolverConan.  The state is the recipe instance (version, settings, *)
(* options) and what its methods produce (requirements, package-id         *)
(* options, CMake toolchain variables, packaged files, cpp_info).  There   *)
(* is one action per recipe method, run in the order in which Conan calls  *)
(* the methods of a recipe.                                                *)
(*                                                                         *)
(* Encoding.  Option and variable values are strings ("True", "False",     *)
(* "deprecated", "None", ""), so that values of different Python types can *)
(* be compared.  A version is the sequence of its numeric items            *)
(* ("2.2.0" is <<2, 2, 0>>).  A path is the sequence of its components and *)
(* a library name the sequence of the pieces its f-string concatenates.    *)
(***************************************************************************)
EXTENDS Integers, Sequences, FiniteSets, TLC

VARIABLES
    version,            \* self.version
    overlay,            \* the options as requested: defaults plus the user's values
    settings,           \* self.settings: os, compiler, build_type, ...
    supported_cppstd,   \* newest C++ standard the resolved compiler supports
    options,            \* self.options: option name -> value, present ones only
    pc,                 \* the recipe method Conan calls next
    warnings,           \* self.output.warning messages
    requires,           \* self.requires(...) declarations
    tool_requires,      \* self.tool_requires(...) declarations
    info_options,       \* self.info.options after package_id()
    tc_variables,       \* tc.variables assignments, in program order
    package_folder,     \* files in self.package_folder
    cpp_info,           \* self.cpp_info (component "ceres" and global fields)
    package_info_calls  \* number of package_info() invocations so far

vars == <<version, overlay, settings, supported_cppstd, options, pc, warnings, requires,
          tool_requires, info_options, tc_variables, package_folder, cpp_info,
          package_info_calls>>

\* Bounds of the model.
MaxOverlay == 2            \* options the user sets to a non-default value
MaxPackageInfoCalls == 2   \* consecutive invocations of package_info()

(***************************************************************************)
(* Versions (conan.tools.scm.Version): compared item by item, a missing    *)
(* item counting as 0, so that "2.0" = "2.0.0" and "2" <= "2.0.0".         *)
(***************************************************************************)
VersionItem(v, i) == IF i <= Len(v) THEN v[i] ELSE 0

VersionMaxLen(a, b) == IF Len(a) >= Len(b) THEN Len(a) ELSE Len(b)

VersionLt(a, b) ==
    \E i \in 1..VersionMaxLen(a, b) :
        /\ VersionItem(a, i) < VersionItem(b, i)
        /\ \A j \in 1..(i - 1) : VersionItem(a, j) = VersionItem(b, j)

VersionGe(a, b) == ~VersionLt(a, b)

\* Versions of the library the recipe is instantiated for.
Versions == {<<1, 9, 0>>, <<2, 0, 0>>, <<2, 1, 0>>, <<2, 2, 0>>}

(***************************************************************************)
(* options / default_options                                               *)
(***************************************************************************)
OptionNames ==
    {"shared", "fPIC", "use_glog", "use_gflags", "use_custom_blas",
     "use_eigen_sparse", "use_TBB", "use_CXX11_threads", "use_CXX11",
     "use_schur_specializations", "use_cuda"}

options_decl ==
    [n \in OptionNames |->
        IF n = "use_gflags" THEN {"True", "False", "deprecated"}
                            ELSE {"True", "False"}]

default_options ==
    [shared |-> "False",
     fPIC |-> "True",
     use_glog |-> "False",
     use_gflags |-> "deprecated",
     use_custom_blas |-> "True",
     use_eigen_sparse |-> "True",
     use_TBB |-> "False",
     use_CXX11_threads |-> "False",
     use_CXX11 |-> "False",
     use_schur_specializations |-> "True",
     use_cuda |-> "False"]

\* Python truth of an option value, and `not`.
Truthy(v) == v = "True"

Not(v) == IF Truthy(v) THEN "False" ELSE "True"

\* del self.options.<name> / self.options.rm_safe(name)
DelOption(o, name) == [n \in (DOMAIN o) \ {name} |-> o[n]]

\* self.options.get_safe(name, default)
get_safe(o, name, default) == IF name \in DOMAIN o THEN o[name] ELSE default

\* The option sets a user's overlay can produce on top of default_options:
\* every value is one of the option's declared values.
OverlaidOptions ==
    UNION {
        {[n \in OptionNames |-> IF n \in S THEN f[n] ELSE default_options[n]] :
            f \in {g \in [S -> {"True", "False", "deprecated"}] :
                     \A n \in S : g[n] \in options_decl[n] \ {default_options[n]}}} :
        S \in {T \in SUBSET OptionNames : Cardinality(T) <= MaxOverlay}}

(***************************************************************************)
(* settings                                                                *)
(***************************************************************************)
Profiles ==
    {[os |-> "Linux", os_version |-> "None", compiler |-> "gcc",
      compiler_version |-> <<4, 9>>, libcxx |-> "libstdc++11", runtime |-> "None"],
     [os |-> "Linux", os_version |-> "None", compiler |-> "gcc",
      compiler_version |-> <<5>>, libcxx |-> "libstdc++11", runtime |-> "None"],
     [os |-> "Linux", os_version |-> "None", compiler |-> "gcc",
      compiler_version |-> <<8>>, libcxx |-> "libstdc++11", runtime |-> "None"],
     [os |-> "FreeBSD", os_version |-> "None", compiler |-> "clang",
      compiler_version |-> <<6>>, libcxx |-> "libc++", runtime |-> "None"],
     [os |-> "Windows", os_version |-> "None", compiler |-> "msvc",
      compiler_version |-> <<190>>, libcxx |-> "None", runtime |-> "dynamic"],
     [os |-> "Windows", os_version |-> "None", compiler |-> "msvc",
      compiler_version |-> <<193>>, libcxx |-> "None", runtime |-> "static"],
     [os |-> "Macos", os_version |-> "None", compiler |-> "apple-clang",
      compiler_version |-> <<9, 1>>, libcxx |-> "libc++", runtime |-> "None"],
     [os |-> "iOS", os_version |-> "13.0", compiler |-> "apple-clang",
      compiler_version |-> <<13>>, libcxx |-> "libc++", runtime |-> "None"],
     [os |-> "SunOS", os_version |-> "None", compiler |-> "sun-cc",
      compiler_version |-> <<5, 15>>, libcxx |-> "libCstd", runtime |-> "None"]}

BuildTypes == {"Debug", "Release", "RelWithDebInfo"}

\* Values of settings.compiler.cppstd; "None" when the setting is not defined.
CppstdValues(compiler) ==
    IF compiler = "sun-cc" THEN {"None"}
    ELSE IF compiler = "msvc" THEN {"None", "14", "17"}
    ELSE {"None", "98", "gnu14", "17"}

\* check_min_cppstd's order on standards: "gnu" is dropped, "98" is 1998 and
\* every other value is 20xx.
CppstdYear(s) ==
    CASE s \in {"98", "gnu98"} -> 1998
      [] s \in {"11", "gnu11"} -> 2011
      [] s \in {"14", "gnu14"} -> 2014
      [] s \in {"17", "gnu17"} -> 2017
      [] s \in {"20", "gnu20"} -> 2020

is_apple_os(s) == s.os \in {"Macos", "iOS", "watchOS", "tvOS", "visionOS"}

is_msvc(s) == s.compiler \in {"msvc", "Visual Studio"}

is_msvc_static_runtime(s) ==
    IF is_msvc(s) /\ s.runtime = "static" THEN "True" ELSE "False"

\* conan.tools.build.stdcpp_library
stdcpp_library(s) ==
    CASE s.libcxx \in {"libstdc++", "libstdc++11"} -> "stdc++"
      [] s.libcxx = "libc++" -> "c++"
      [] s.libcxx = "c++_shared" -> "c++_shared"
      [] s.libcxx = "c++_static" -> "c++_static"
      [] OTHER -> "None"

(***************************************************************************)
(* _min_cppstd, _compilers_minimum_version                                 *)
(***************************************************************************)
min_cppstd(v) ==
    IF VersionGe(v, <<2, 2, 0>>) THEN "17"
    ELSE IF VersionGe(v, <<2, 0, 0>>) THEN "14"
    ELSE "98"

\* A dict as a function: compiler name -> minimum version; the empty function
\* <<>> is the empty dict.
compilers_minimum_version(v) ==
    CASE min_cppstd(v) = "14" ->
             ("apple-clang" :> <<5>>) @@ ("clang" :> <<5>>) @@ ("gcc" :> <<5>>)
                 @@ ("msvc" :> <<190>>) @@ ("Visual Studio" :> <<14>>)
      [] min_cppstd(v) = "17" ->
             ("apple-clang" :> <<10>>) @@ ("clang" :> <<7>>) @@ ("gcc" :> <<8>>)
                 @@ ("msvc" :> <<191>>) @@ ("Visual Studio" :> <<15>>)
      [] OTHER -> <<>>

\* Compilers the recipe's table knows.
ListedCompilers == {"apple-clang", "clang", "gcc", "msvc", "Visual Studio"}

\* The newest standard a listed compiler supports, as the recipe's table has it.
TableCppstd(s) ==
    IF VersionGe(s.compiler_version, compilers_minimum_version(<<2, 2, 0>>)[s.compiler])
    THEN "17"
    ELSE IF VersionGe(s.compiler_version, compilers_minimum_version(<<2, 0, 0>>)[s.compiler])
    THEN "14"
    ELSE "98"

(***************************************************************************)
(* Small helpers for Python lists and dicts.                               *)
(***************************************************************************)
\* The statements guarded by `if c:` contribute seq, otherwise nothing.
When(c, seq) == IF c THEN seq ELSE <<>>

\* tc.variables[name] = value
Assign(name, value) == << <<name, value>> >>

\* d[key] = value on a dict held as a function.
DictSet(d, key, value) == (key :> value) @@ d

\* Number of occurrences of x in the list seq.
Count(seq, x) == Cardinality({i \in 1..Len(seq) : seq[i] = x})

\* os.path.join(*parts) as the sequence of the components.
path_join(parts) == parts

(***************************************************************************)
(* config_options(), configure()                                           *)
(***************************************************************************)
\* Variant: use_CXX11 is not removed for versions >= 2.0.
config_options_keeps_CXX11(v, s, o) ==
    LET o1 == IF s.os = "Windows" THEN DelOption(o, "fPIC") ELSE o
    IN  IF VersionGe(v, <<2, 0>>)
        THEN DelOption(DelOption(o1, "use_TBB"), "use_CXX11_threads")
        ELSE o1

config_options(v, s, o) ==
    LET o1 == IF s.os = "Windows" THEN DelOption(o, "fPIC") ELSE o
    IN  IF VersionGe(v, <<2, 0>>)
        THEN DelOption(DelOption(DelOption(o1, "use_TBB"), "use_CXX11_threads"),
                       "use_CXX11")
        ELSE o1

configure_options(o) ==
    IF Truthy(o["shared"]) THEN DelOption(o, "fPIC") ELSE o

configure_warnings(o) ==
    When(o["use_gflags"] /= "deprecated", <<"use_gflags option is deprecated">>)

(***************************************************************************)
(* requirements(), build_requirements(), package_id()                      *)
(***************************************************************************)
Requirement(ref, headers, libs) ==
    [ref |-> ref, transitive_headers |-> headers, transitive_libs |-> libs]

\* Variant: get_safe("use_TBB") with a true default.
requirements_tbb_default_true(o) ==
    <<Requirement("eigen/3.4.0", "True", "None")>>
    \o When(Truthy(o["use_glog"]), <<Requirement("glog/0.6.0", "True", "True")>>)
    \o When(Truthy(get_safe(o, "use_TBB", "True")),
            <<Requirement("onetbb/2020.3", "None", "None")>>)

requirements(o) ==
    <<Requirement("eigen/3.4.0", "True", "None")>>
    \o When(Truthy(o["use_glog"]), <<Requirement("glog/0.6.0", "True", "True")>>)
    \o When(Truthy(get_safe(o, "use_TBB", "None")),
            <<Requirement("onetbb/2020.3", "None", "None")>>)

build_requirements(v) ==
    When(VersionGe(v, <<2, 2, 0>>), <<"cmake/[>=3.21]">>)

\* Variant: use_gflags stays in the package-id options.
package_id_keeps_gflags(o) == o

package_id(o) == DelOption(o, "use_gflags")

(***************************************************************************)
(* validate()                                                              *)
(***************************************************************************)
\* check_min_cppstd(self, self._min_cppstd) raises.
check_min_cppstd_raises(v, s) ==
    CppstdYear(s.cppstd) < CppstdYear(min_cppstd(v))

\* minimum_version and Version(compiler.version) < minimum_version
compiler_too_old(v, s) ==
    LET table == compilers_minimum_version(v)
    IN  /\ s.compiler \in DOMAIN table
        /\ VersionLt(s.compiler_version, table[s.compiler])

\* Variant: only the cppstd setting is checked.
validate_raises_cppstd_only(v, s) ==
    s.cppstd /= "None" /\ check_min_cppstd_raises(v, s)

\* TRUE when validate() raises ConanInvalidConfiguration.
validate_raises(v, s) ==
    \/ s.cppstd /= "None" /\ check_min_cppstd_raises(v, s)
    \/ compiler_too_old(v, s)

(***************************************************************************)
(* generate(): the assignments to tc.variables, in program order.          *)
(***************************************************************************)
\* Variant: the second branch is an `if`, not an `elif`.
generate_cuda_no_elif(v, o) ==
    When(VersionGe(v, <<2, 2, 0>>), Assign("USE_CUDA", o["use_cuda"]))
    \o When(VersionGe(v, <<2, 1, 0>>), Assign("CUDA", o["use_cuda"]))

\* if ceres_version >= "2.2.0": ... elif ceres_version >= "2.1.0": ...
generate_cuda(v, o) ==
    IF VersionGe(v, <<2, 2, 0>>) THEN Assign("USE_CUDA", o["use_cuda"])
    ELSE IF VersionGe(v, <<2, 1, 0>>) THEN Assign("CUDA", o["use_cuda"])
    ELSE <<>>

\* Variant: TBB and CXX11_THREADS take each other's option.
generate_legacy_swapped(v, o) ==
    When(VersionLt(v, <<2, 0, 0>>),
         Assign("CXX11", o["use_CXX11"])
         \o Assign("OPENMP", "False")
         \o Assign("TBB", o["use_CXX11_threads"])
         \o Assign("CXX11_THREADS", o["use_TBB"]))

\* if ceres_version < "2.0.0": ...
generate_legacy(v, o) ==
    When(VersionLt(v, <<2, 0, 0>>),
         Assign("CXX11", o["use_CXX11"])
         \o Assign("OPENMP", "False")
         \o Assign("TBB", o["use_TBB"])
         \o Assign("CXX11_THREADS", o["use_CXX11_threads"]))

generate(v, s, o) ==
       Assign("MINIGLOG", Not(o["use_glog"]))
    \o Assign("GFLAGS", "False")
    \o Assign("SUITESPARSE", "False")
    \o Assign("LAPACK", "False")
    \o Assign("SCHUR_SPECIALIZATIONS", o["use_schur_specializations"])
    \o Assign("CUSTOM_BLAS", o["use_custom_blas"])
    \o Assign("EIGENSPARSE", o["use_eigen_sparse"])
    \o Assign("BUILD_TESTING", "False")
    \o Assign("BUILD_DOCUMENTATION", "False")
    \o Assign("BUILD_EXAMPLES", "False")
    \o Assign("BUILD_BENCHMARKS", "False")
    \o generate_cuda(v, o)
    \o When(VersionGe(v, <<2, 2, 0>>), Assign("EIGENMETIS", "False"))
    \o When(VersionGe(v, <<2, 0, 0>>),
            Assign("PROVIDE_UNINSTALL_TARGET", "False")
            \o When(is_apple_os(s), Assign("ACCELERATESPARSE", "True")))
    \o When(VersionLt(v, <<2, 2, 0>>),
            Assign("CXSPARSE", "False")
            \o When(is_msvc(s),
                    Assign("MSVC_USE_STATIC_CRT", is_msvc_static_runtime(s))))
    \o When(VersionLt(v, <<2, 1, 0>>), Assign("LIB_SUFFIX", ""))
    \o generate_legacy(v, o)
    \o When(s.os = "iOS", Assign("IOS_DEPLOYMENT_TARGET", s.os_version))

\* Names assigned in a list of assignments, and the dict the list leaves.
AssignedNames(tc) == {tc[i][1] : i \in 1..Len(tc)}

IsSet(tc, name) == name \in AssignedNames(tc)

ValuesOf(tc, name) == {tc[i][2] : i \in {j \in 1..Len(tc) : tc[j][1] = name}}

(***************************************************************************)
(* package(): _module_variables_file_rel_path,                             *)
(* _create_cmake_module_variables                                          *)
(***************************************************************************)
name == "ceres-solver"

module_variables_file_rel_path ==
    path_join(<<"lib", "cmake", "conan-official-" \o name \o "-variables.cmake">>)

\* The text _create_cmake_module_variables saves, one tuple per statement.
create_cmake_module_variables(v) ==
    <<<<"set", "CERES_FOUND", "TRUE">>,
      <<"set", "CERES_VERSION", v>>,
      <<"if", "NOT DEFINED CERES_LIBRARIES">>,
      <<"set", "CERES_LIBRARIES", "Ceres::ceres">>,
      <<"endif">>>>

IsPrefix(dir, path) ==
    Len(dir) <= Len(path) /\ SubSeq(path, 1, Len(dir)) = dir

\* rmdir(self, os.path.join(self.package_folder, *dir))
rmdir(files, dir) ==
    [f \in {g \in DOMAIN files : ~IsPrefix(dir, g)} |-> files[f]]

\* What cmake.install() of the upstream project puts in the package folder.
cmake_install ==
    (<<"include", "ceres", "ceres.h">> :> "header")
    @@ (<<"lib", "ceres">> :> "library")
    @@ (<<"lib", "cmake", "Ceres", "CeresConfig.cmake">> :> "config")

package(v, files) ==
    LET copied == DictSet(files, path_join(<<"licenses", "LICENSE">>), "LICENSE")
        installed == cmake_install @@ copied
        cleaned == rmdir(rmdir(installed, <<"lib", "cmake">>), <<"CMake">>)
    IN  DictSet(cleaned, module_variables_file_rel_path,
                create_cmake_module_variables(v))

(***************************************************************************)
(* package_info(): applied to the cpp_info ci it is invoked on.            *)
(***************************************************************************)
NewCppInfo ==
    [properties |-> <<>>,
     libs |-> <<>>,
     includedirs |-> <<<<"include">>>>,
     system_libs |-> <<>>,
     frameworks |-> <<>>,
     requires |-> <<>>,
     names |-> <<>>,
     build_modules |-> <<>>,
     component_properties |-> <<>>]

\* Variant: every build type with debug information gets the suffix.
libsuffix_debug_info(s) ==
    IF s.build_type \in {"Debug", "RelWithDebInfo"} THEN <<"-debug">> ELSE <<>>

libsuffix(s) == IF s.build_type = "Debug" THEN <<"-debug">> ELSE <<>>

package_info_libs(s, o) ==
    <<<<"ceres">> \o libsuffix(s)>>
    \o When(Truthy(o["use_cuda"]), <<<<"ceres_cuda_kernels">> \o libsuffix(s)>>)

\* Variant: the miniglog path is added when glog is used.
package_info_includedirs_inverted(o) ==
    <<path_join(<<"include", "ceres">>)>>
    \o When(Truthy(o["use_glog"]),
            <<path_join(<<"include", "ceres", "internal", "miniglog">>)>>)

package_info_includedirs(o) ==
    <<path_join(<<"include", "ceres">>)>>
    \o When(~Truthy(o["use_glog"]),
            <<path_join(<<"include", "ceres", "internal", "miniglog">>)>>)

package_info_system_libs(s, o) ==
    When(s.os \in {"Linux", "FreeBSD"},
         <<"m">> \o When(Truthy(get_safe(o, "use_CXX11_threads", "True")),
                         <<"pthread">>))
    \o When(~Truthy(o["shared"]) /\ stdcpp_library(s) /= "None",
            <<stdcpp_library(s)>>)

package_info_frameworks(v, s) ==
    When(s.os \notin {"Linux", "FreeBSD"} /\ is_apple_os(s) /\ VersionGe(v, <<2>>),
         <<"Accelerate">>)

package_info_requires(o) ==
    <<"eigen::eigen">>
    \o When(Truthy(o["use_glog"]), <<"glog::glog">>)
    \o When(Truthy(get_safe(o, "use_TBB", "None")), <<"onetbb::onetbb">>)

\* Variant: libs is appended to, like the other lists, not assigned.
package_info_appending_libs(v, s, o, ci) ==
    [properties |->
        DictSet(DictSet(DictSet(DictSet(ci.properties,
            "cmake_file_name", <<"Ceres">>),
            "cmake_target_name", <<"Ceres::ceres">>),
            "cmake_target_aliases", <<"ceres">>),
            "cmake_build_modules", <<module_variables_file_rel_path>>),
     libs |-> ci.libs \o package_info_libs(s, o),
     includedirs |-> ci.includedirs \o package_info_includedirs(o),
     system_libs |-> ci.system_libs \o package_info_system_libs(s, o),
     frameworks |-> ci.frameworks \o package_info_frameworks(v, s),
     requires |-> package_info_requires(o),
     names |->
        DictSet(DictSet(ci.names,
            "cmake_find_package", "Ceres"),
            "cmake_find_package_multi", "Ceres"),
     build_modules |->
        DictSet(DictSet(ci.build_modules,
            "cmake_find_package", <<module_variables_file_rel_path>>),
            "cmake_find_package_multi", <<module_variables_file_rel_path>>),
     component_properties |->
        DictSet(ci.component_properties, "cmake_target_name", <<"Ceres::ceres">>)]

package_info(v, s, o, ci) ==
    [properties |->
        DictSet(DictSet(DictSet(DictSet(ci.properties,
            "cmake_file_name", <<"Ceres">>),
            "cmake_target_name", <<"Ceres::ceres">>),
            "cmake_target_aliases", <<"ceres">>),
            "cmake_build_modules", <<module_variables_file_rel_path>>),
     libs |-> package_info_libs(s, o),
     includedirs |-> ci.includedirs \o package_info_includedirs(o),
     system_libs |-> ci.system_libs \o package_info_system_libs(s, o),
     frameworks |-> ci.frameworks \o package_info_frameworks(v, s),
     requires |-> package_info_requires(o),
     names |->
        DictSet(DictSet(ci.names,
            "cmake_find_package", "Ceres"),
            "cmake_find_package_multi", "Ceres"),
     build_modules |->
        DictSet(DictSet(ci.build_modules,
            "cmake_find_package", <<module_variables_file_rel_path>>),
            "cmake_find_package_multi", <<module_variables_file_rel_path>>),
     component_properties |->
        DictSet(ci.component_properties, "cmake_target_name", <<"Ceres::ceres">>)]

(***************************************************************************)
(* The recipe instance and the pipeline of its methods.                    *)
(***************************************************************************)
Init ==
    /\ version \in Versions
    /\ \E p \in Profiles, bt \in BuildTypes :
        \E std \in CppstdValues(p.compiler) :
            settings = [os |-> p.os, os_version |-> p.os_version,
                        compiler |-> p.compiler,
                        compiler_version |-> p.compiler_version,
                        libcxx |-> p.libcxx, runtime |-> p.runtime,
                        cppstd |-> std, build_type |-> bt]
    /\ supported_cppstd \in
           IF settings.compiler \in ListedCompilers
           THEN {TableCppstd(settings)}
           ELSE {"14", "17"}
    /\ overlay \in OverlaidOptions
    /\ options = overlay
    /\ pc = "config_options"
    /\ warnings = <<>>
    /\ requires = <<>>
    /\ tool_requires = <<>>
    /\ info_options = <<>>
    /\ tc_variables = <<>>
    /\ package_folder = <<>>
    /\ cpp_info = NewCppInfo
    /\ package_info_calls = 0

ConfigOptions ==
    /\ pc = "config_options"
    /\ options' = config_options(version, settings, options)
    /\ pc' = "configure"
    /\ UNCHANGED <<version, overlay, settings, supported_cppstd, warnings, requires,
                   tool_requires, info_options, tc_variables, package_folder,
                   cpp_info, package_info_calls>>

Configure ==
    /\ pc = "configure"
    /\ options' = configure_options(options)
    /\ warnings' = warnings \o configure_warnings(options)
    /\ pc' = "requirements"
    /\ UNCHANGED <<version, overlay, settings, supported_cppstd, requires, tool_requires,
                   info_options, tc_variables, package_folder, cpp_info,
                   package_info_calls>>

Requirements ==
    /\ pc = "requirements"
    /\ requires' = requires \o requirements(options)
    /\ pc' = "build_requirements"
    /\ UNCHANGED <<version, overlay, settings, supported_cppstd, options, warnings,
                   tool_requires, info_options, tc_variables, package_folder,
                   cpp_info, package_info_calls>>

BuildRequirements ==
    /\ pc = "build_requirements"
    /\ tool_requires' = tool_requires \o build_requirements(version)
    /\ pc' = "package_id"
    /\ UNCHANGED <<version, overlay, settings, supported_cppstd, options, warnings,
                   requires, info_options, tc_variables, package_folder,
                   cpp_info, package_info_calls>>

PackageId ==
    /\ pc = "package_id"
    /\ info_options' = package_id(options)
    /\ pc' = "validate"
    /\ UNCHANGED <<version, overlay, settings, supported_cppstd, options, warnings,
                   requires, tool_requires, tc_variables, package_folder,
                   cpp_info, package_info_calls>>

\* validate() raises: the configuration is invalid and nothing is built.
ValidateRaises ==
    /\ pc = "validate"
    /\ validate_raises(version, settings)
    /\ pc' = "invalid"
    /\ UNCHANGED <<version, overlay, settings, supported_cppstd, options, warnings,
                   requires, tool_requires, info_options, tc_variables,
                   package_folder, cpp_info, package_info_calls>>

ValidatePasses ==
    /\ pc = "validate"
    /\ ~validate_raises(version, settings)
    /\ pc' = "generate"
    /\ UNCHANGED <<version, overlay, settings, supported_cppstd, options, warnings,
                   requires, tool_requires, info_options, tc_variables,
                   package_folder, cpp_info, package_info_calls>>

Generate ==
    /\ pc = "generate"
    /\ tc_variables' = tc_variables \o generate(version, settings, options)
    /\ pc' = "build"
    /\ UNCHANGED <<version, overlay, settings, supported_cppstd, options, warnings,
                   requires, tool_requires, info_options, package_folder,
                   cpp_info, package_info_calls>>

\* build(): the native build succeeds, or fails and aborts the pipeline.
Build ==
    /\ pc = "build"
    /\ pc' = "package"
    /\ UNCHANGED <<version, overlay, settings, supported_cppstd, options, warnings,
                   requires, tool_requires, info_options, tc_variables,
                   package_folder, cpp_info, package_info_calls>>

BuildFails ==
    /\ pc = "build"
    /\ pc' = "build_failed"
    /\ UNCHANGED <<version, overlay, settings, supported_cppstd, options, warnings,
                   requires, tool_requires, info_options, tc_variables,
                   package_folder, cpp_info, package_info_calls>>

Package ==
    /\ pc = "package"
    /\ package_folder' = package(version, package_folder)
    /\ pc' = "package_info"
    /\ UNCHANGED <<version, overlay, settings, supported_cppstd, options, warnings,
                   requires, tool_requires, info_options, tc_variables,
                   cpp_info, package_info_calls>>

\* package_info(), which may be invoked again on the same cpp_info.
PackageInfo ==
    /\ pc = "package_info"
    /\ package_info_calls < MaxPackageInfoCalls
    /\ cpp_info' = package_info(version, settings, options, cpp_info)
    /\ package_info_calls' = package_info_calls + 1
    /\ UNCHANGED <<version, overlay, settings, supported_cppstd, options, pc, warnings,
                   requires, tool_requires, info_options, tc_variables,
                   package_folder>>

Next ==
    \/ ConfigOptions
    \/ Configure
    \/ Requirements
    \/ BuildRequirements
    \/ PackageId
    \/ ValidateRaises
    \/ ValidatePasses
    \/ Generate
    \/ Build
    \/ BuildFails
    \/ Package
    \/ PackageInfo

Spec == Init /\ [][Next]_vars

\* The pipeline completed: the Artifact Descriptor has been emitted.
Described == pc = "package_info" /\ package_info_calls >= 1

(***************************************************************************)
(* Where the pipeline stands.                                              *)
(***************************************************************************)
AfterConfigure == pc \notin {"config_options", "configure"}

AfterRequirements == AfterConfigure /\ pc /= "requirements"

AfterPackageId ==
    pc \in {"validate", "invalid", "generate", "build", "build_failed",
            "package", "package_info"}

AfterValidate ==
    pc \in {"invalid", "generate", "build", "build_failed", "package",
            "package_info"}

AfterGenerate == pc \in {"build", "build_failed", "package", "package_info"}

\* No build step (generate, build, package, package_info) has run.
NothingBuilt ==
    /\ tc_variables = <<>>
    /\ package_folder = <<>>
    /\ cpp_info = NewCppInfo

BelowMinimum(std) == CppstdYear(std) < CppstdYear(min_cppstd(version))

(***************************************************************************)
(* C1                                                                      *)
(***************************************************************************)
\* C1 (as stated): whenever the resolved compiler's supported C++ standard is
\* below the minimum the version requires, validate() has raised once it has
\* run, and no build step has run.
C1_UnsupportedStandardRejected ==
    (AfterValidate /\ BelowMinimum(supported_cppstd))
        => (pc = "invalid" /\ NothingBuilt)

\* C1 (amended): validate() raises, before any build step, whenever the cppstd
\* setting is defined and below the minimum, or the compiler is one of those
\* in _compilers_minimum_version and supports less than the minimum.
C1_ValidateRejects ==
    (/\ AfterValidate
     /\ \/ settings.cppstd /= "None" /\ BelowMinimum(settings.cppstd)
        \/ settings.compiler \in ListedCompilers /\ BelowMinimum(supported_cppstd))
        => (pc = "invalid" /\ NothingBuilt)

C1_Witness ==
    /\ pc = "invalid"
    /\ settings.cppstd = "None"
    /\ settings.compiler = "gcc"
    /\ BelowMinimum(supported_cppstd)
    /\ min_cppstd(version) = "17"

(***************************************************************************)
(* C2                                                                      *)
(***************************************************************************)
BackendOptions == {"use_TBB", "use_CXX11_threads", "use_CXX11"}

\* C2: for a version >= 2.0, once config_options() and configure() have run,
\* use_TBB, use_CXX11_threads and use_CXX11 are absent from the options, in
\* that step and in every later one.
C2_BackendOptionsAbsent ==
    (VersionGe(version, <<2, 0>>) /\ AfterConfigure)
        => BackendOptions \cap DOMAIN options = {}

C2_Witness ==
    /\ VersionGe(version, <<2, 0>>)
    /\ overlay["use_TBB"] = "True"
    /\ overlay["use_CXX11_threads"] = "True"
    /\ Described
    /\ BackendOptions \cap DOMAIN options = {}

(***************************************************************************)
(* C3                                                                      *)
(***************************************************************************)
CarriesDebugSuffix(lib) == Len(lib) >= 1 /\ lib[Len(lib)] = "-debug"

\* C3: package_info() emits a library name carrying the "-debug" suffix when
\* build_type is Debug, and no such name for any other build_type.
C3_DebugSuffix ==
    Described =>
        IF settings.build_type = "Debug"
        THEN \E i \in 1..Len(cpp_info.libs) : CarriesDebugSuffix(cpp_info.libs[i])
        ELSE \A i \in 1..Len(cpp_info.libs) : ~CarriesDebugSuffix(cpp_info.libs[i])

C3_Witness ==
    /\ Described
    /\ settings.build_type = "Debug"
    /\ cpp_info.libs = <<<<"ceres", "-debug">>, <<"ceres_cuda_kernels", "-debug">>>>

(***************************************************************************)
(* C4                                                                      *)
(***************************************************************************)
CudaLib == <<"ceres_cuda_kernels">> \o libsuffix(settings)

\* The libs of the same configuration with use_cuda disabled.
LibsWithoutCuda ==
    package_info(version, settings, [options EXCEPT !["use_cuda"] = "False"],
                 NewCppInfo).libs

\* C4: with use_cuda enabled the libs are those of the same configuration
\* with use_cuda disabled plus exactly one name, and however many times
\* package_info() has been invoked that name occurs once.
C4_CudaAddsOneLibrary ==
    Described =>
        IF Truthy(options["use_cuda"])
        THEN /\ cpp_info.libs = LibsWithoutCuda \o <<CudaLib>>
             /\ Count(cpp_info.libs, CudaLib) = 1
        ELSE /\ cpp_info.libs = LibsWithoutCuda
             /\ Count(cpp_info.libs, CudaLib) = 0

C4_Witness ==
    /\ Described
    /\ package_info_calls >= 2
    /\ Truthy(options["use_cuda"])
    /\ Count(cpp_info.libs, CudaLib) = 1

(***************************************************************************)
(* C5                                                                      *)
(***************************************************************************)
LegacyThreadingVariables == {"CXX11", "OPENMP", "TBB", "CXX11_THREADS"}

ModernVariables == {"PROVIDE_UNINSTALL_TARGET", "ACCELERATESPARSE"}

\* C5: after generate(), no variable has two different values assigned, at
\* most one of USE_CUDA and CUDA is set, and the legacy threading variables
\* are never set together with the variables of the >= 2.0.0 scheme.
C5_ExclusiveSchemes ==
    AfterGenerate =>
        /\ \A n \in AssignedNames(tc_variables) :
               Cardinality(ValuesOf(tc_variables, n)) = 1
        /\ ~(IsSet(tc_variables, "USE_CUDA") /\ IsSet(tc_variables, "CUDA"))
        /\ \/ LegacyThreadingVariables \cap AssignedNames(tc_variables) = {}
           \/ ModernVariables \cap AssignedNames(tc_variables) = {}

C5_Witness ==
    /\ AfterGenerate
    /\ IsSet(tc_variables, "USE_CUDA")
    /\ IsSet(tc_variables, "PROVIDE_UNINSTALL_TARGET")
    /\ IsSet(tc_variables, "ACCELERATESPARSE")
    /\ ValuesOf(tc_variables, "USE_CUDA") = {"True"}

(***************************************************************************)
(* C6                                                                      *)
(***************************************************************************)
Declared == {requires[i] : i \in 1..Len(requires)}

Eigen == Requirement("eigen/3.4.0", "True", "None")

Glog == Requirement("glog/0.6.0", "True", "True")

Onetbb == Requirement("onetbb/2020.3", "None", "None")

\* C6: requirements() declares eigen always (transitive headers), glog
\* (transitive headers and libs) exactly when use_glog is enabled, onetbb
\* exactly when use_TBB exists (version < 2.0) and is enabled, nothing else
\* and nothing twice.
C6_Requirements ==
    AfterRequirements =>
        /\ Eigen \in Declared
        /\ Glog \in Declared <=> Truthy(options["use_glog"])
        /\ Onetbb \in Declared <=>
               /\ "use_TBB" \in DOMAIN options
               /\ Truthy(options["use_TBB"])
               /\ VersionLt(version, <<2, 0>>)
        /\ Declared \subseteq {Eigen, Glog, Onetbb}
        /\ Len(requires) = Cardinality(Declared)

C6_Witness ==
    /\ AfterRequirements
    /\ VersionGe(version, <<2, 0>>)
    /\ overlay["use_TBB"] = "True"
    /\ overlay["use_glog"] = "True"
    /\ requires = <<Eigen, Glog>>

(***************************************************************************)
(* C7                                                                      *)
(***************************************************************************)
\* C7: for a version below 2.0 the options use_TBB, use_CXX11_threads and
\* use_CXX11 stay in the option set, and generate() sets TBB, CXX11_THREADS
\* and CXX11 to the values of these options.
C7_LegacyBackendFlags ==
    VersionLt(version, <<2, 0>>) =>
        /\ BackendOptions \subseteq DOMAIN options
        /\ \A n \in BackendOptions : options[n] = overlay[n]
        /\ AfterGenerate =>
               /\ ValuesOf(tc_variables, "TBB") = {options["use_TBB"]}
               /\ ValuesOf(tc_variables, "CXX11_THREADS") = {options["use_CXX11_threads"]}
               /\ ValuesOf(tc_variables, "CXX11") = {options["use_CXX11"]}

C7_Witness ==
    /\ version = <<1, 9, 0>>
    /\ AfterGenerate
    /\ options["use_TBB"] = "True"
    /\ options["use_CXX11_threads"] = "False"
    /\ ValuesOf(tc_variables, "TBB") = {"True"}

(***************************************************************************)
(* C8                                                                      *)
(***************************************************************************)
\* Version 2.2.0 on Linux with gcc, overlay {use_glog: False, use_cuda: True}.
C8_Configuration ==
    /\ version = <<2, 2, 0>>
    /\ settings.os = "Linux"
    /\ settings.compiler = "gcc"
    /\ overlay = [default_options EXCEPT !["use_glog"] = "False",
                                         !["use_cuda"] = "True"]

C8_Yields ==
    /\ min_cppstd(version) = "17"
    /\ Declared = {Eigen}
    /\ cpp_info.libs = <<<<"ceres">>, <<"ceres_cuda_kernels">>>>
    /\ \E i \in 1..Len(cpp_info.includedirs) :
           cpp_info.includedirs[i] = <<"include", "ceres", "internal", "miniglog">>

\* C8 (as stated): in that configuration the completed pipeline yields
\* minimum standard "17", dependencies {eigen}, libs ["ceres",
\* "ceres_cuda_kernels"] and the miniglog include directory.
C8_Example == (C8_Configuration /\ Described) => C8_Yields

\* C8 (amended): the same, for a build type other than Debug.
C8_ExampleNonDebug ==
    (C8_Configuration /\ settings.build_type /= "Debug" /\ Described) => C8_Yields

C8_Witness ==
    /\ C8_Configuration
    /\ settings.build_type = "Release"
    /\ Described
    /\ C8_Yields

(***************************************************************************)
(* C9                                                                      *)
(***************************************************************************)
\* The options the same request resolves to with use_gflags left at its default.
DefaultGflagsOptions ==
    configure_options(
        config_options(version, settings,
                       [overlay EXCEPT !["use_gflags"] = "deprecated"]))

RECURSIVE PackageInfoTimes(_, _)
PackageInfoTimes(n, o) ==
    IF n = 0 THEN NewCppInfo
    ELSE package_info(version, settings, o, PackageInfoTimes(n - 1, o))

\* C9: configure() warns exactly when use_gflags is not "deprecated"; the
\* value never makes validate() raise; and the declared dependencies, the
\* package-id options, the build flags and the cpp_info are those obtained
\* with use_gflags at its default.
C9_GflagsIgnored ==
    LET d == DefaultGflagsOptions
    IN  /\ warnings =
               IF AfterConfigure /\ overlay["use_gflags"] /= "deprecated"
               THEN <<"use_gflags option is deprecated">>
               ELSE <<>>
        /\ AfterConfigure =>
               options = [d EXCEPT !["use_gflags"] = overlay["use_gflags"]]
        /\ AfterRequirements => requires = requirements(d)
        /\ AfterPackageId => info_options = package_id(d)
        /\ pc = "invalid" => validate_raises(version, settings)
        /\ AfterGenerate => tc_variables = generate(version, settings, d)
        /\ cpp_info = PackageInfoTimes(package_info_calls, d)

C9_Witness ==
    /\ Described
    /\ overlay["use_gflags"] = "True"
    /\ warnings = <<"use_gflags option is deprecated">>
    /\ "use_gflags" \notin DOMAIN info_options

(***************************************************************************)
(* C10                                                                     *)
(***************************************************************************)
\* C10: the cpp_info lists the CUDA kernels library only if generate() set
\* USE_CUDA or CUDA to true.
C10_CudaLibraryWasRequested ==
    (Described /\ Count(cpp_info.libs, CudaLib) >= 1)
        => "True" \in (ValuesOf(tc_variables, "USE_CUDA")
                       \cup ValuesOf(tc_variables, "CUDA"))

====
